---- MODULE Spec2Model ----
(***************************************************************************)
(* Model of app.py: the Streamlit script that loads one CSV per stock,     *)
(* de-duplicates same-day rows, computes a 10-row rolling mean and sample  *)
(* standard deviation per stock, classifies every row Buy / Sell / Hold,   *)
(* memoizes the whole result with st.cache_data and renders it.            *)
(*                                                                         *)
(* Arithmetic is exact: a mean is the rational [num, den], a standard      *)
(* deviation is kept as its square [num, den], and every comparison is     *)
(* carried out on integers.  NaN is the pandas missing value.              *)
(***************************************************************************)
EXTENDS Integers, Sequences, FiniteSets, TLC

VARIABLES
    disk,           \* file name -> contents of the CSV on disk
    cache,          \* the single st.cache_data entry of load_and_analyze_data
    data,           \* module-level `data` of the last script run
    errors,         \* st.error messages shown by the last script run
    status,         \* how the last script run ended
    selected_date,  \* value of the sidebar selectbox in the last run
    shown,          \* stocks listed in the BUY / SELL / HOLD columns
    read_disk       \* history: the disk as it was when the last run started

vars == <<disk, cache, data, errors, status, selected_date, shown, read_disk>>

----------------------------------------------------------------------------
(* Values *)

\* A float cell: the rational num/den, or one of the IEEE specials.
NaN == [nan |-> TRUE]
Inf(sign) == [inf |-> sign]
Num(n) == [num |-> n, den |-> 1]

\* Contents of a CSV file on disk.
Missing == [state |-> "missing"]   \* no such file: read_csv raises FileNotFoundError
Corrupt == [state |-> "corrupt"]   \* read_csv or the Date/Expiry lookup raises another error
Table(rows) == [state |-> "ok", rows |-> rows]

NoCache == [full |-> FALSE]

\* app.py:20-26, in load order
files ==
    << <<"Eternal", "Eternal.csv">>,
       <<"ADANIGREEN", "ADANIGREEN.csv">>,
       <<"PAYTM", "PAYTM.csv">>,
       <<"NTPC", "NTPC.csv">>,
       <<"DLF", "DLF.csv">> >>

FileNames == { files[i][2] : i \in 1..Len(files) }
StockNames == { files[i][1] : i \in 1..Len(files) }

window_size == 10

\* A Date cell is text.  "dmy" is <day>-Jan-2025 with the day written with or
\* without a leading zero; "iso" is 2025-01-<day>, which '%d-%b-%Y' rejects.
DateText(kind, day, pad) == [kind |-> kind, day |-> day, pad |-> pad]

\* Character codes of the leading characters of a Date cell: they decide the
\* string order sort_values uses before the column is parsed.
DateChars(d) ==
    IF d.kind = "iso" THEN <<50, 48, 50, 53>>
    ELSE IF d.pad \/ d.day >= 10
         THEN <<48 + (d.day \div 10), 48 + (d.day % 10), 45>>
         ELSE <<48 + d.day, 45>>

\* First character of each stock name (all five differ): the string order of
\* the Stock column.
StockChars(s) ==
    CASE s = "ADANIGREEN" -> <<65>>
      [] s = "DLF" -> <<68>>
      [] s = "Eternal" -> <<69>>
      [] s = "NTPC" -> <<78>>
      [] s = "PAYTM" -> <<80>>

----------------------------------------------------------------------------
(* Sorting *)

RECURSIVE LexLess(_, _)
LexLess(a, b) ==
    IF Len(b) = 0 THEN FALSE
    ELSE IF Len(a) = 0 THEN TRUE
    ELSE IF a[1] < b[1] THEN TRUE
    ELSE IF a[1] > b[1] THEN FALSE
    ELSE LexLess(Tail(a), Tail(b))

\* Rows are sorted as <<key, row>> pairs.  x goes after every element whose
\* key is not greater: the sort is stable.
RECURSIVE InsertByKey(_, _)
InsertByKey(x, sorted) ==
    IF sorted = <<>> THEN <<x>>
    ELSE IF LexLess(x[1], sorted[1][1])
         THEN <<x>> \o sorted
         ELSE <<sorted[1]>> \o InsertByKey(x, Tail(sorted))

RECURSIVE SortFrom(_, _)
SortFrom(pairs, acc) ==
    IF pairs = <<>> THEN acc
    ELSE SortFrom(Tail(pairs), InsertByKey(pairs[1], acc))

\* The sort key of a row for sort_values(by): the text of the Date before it
\* is parsed, the calendar day after.
KeyOf(r, by) ==
    CASE by = "Date,Expiry" -> DateChars(r.Date) \o <<0, r.Expiry>>
      [] by = "Stock,Date" -> StockChars(r.Stock) \o <<r.Date>>
      [] by = "Date" -> <<r.Date>>

sort_values(rows, by) ==
    LET sorted == SortFrom([i \in 1..Len(rows) |-> <<KeyOf(rows[i], by), rows[i]>>], <<>>)
    IN  [i \in 1..Len(sorted) |-> sorted[i][2]]

----------------------------------------------------------------------------
(* Loader: app.py:29-38 *)

RECURSIVE Unique(_)
Unique(seq) ==
    IF seq = <<>> THEN <<>>
    ELSE <<seq[1]>> \o Unique(SelectSeq(Tail(seq), LAMBDA x : x # seq[1]))

\* GroupBy.first(): per column, the first value of the group that is not null.
\* Expiry cells are never empty here, so its first value is the first row's.
FirstNotNull(column) ==
    LET present == SelectSeq(column, LAMBDA v : v # NaN)
    IN  IF present = <<>> THEN NaN ELSE present[1]

groupby_first(sorted) ==
    LET keys == Unique([i \in 1..Len(sorted) |-> sorted[i].Date])
        Group(k) == SelectSeq(sorted, LAMBDA r : r.Date = k)
        Column(g, c) == [i \in 1..Len(g) |-> g[i][c]]
    IN  [j \in 1..Len(keys) |->
            [Date |-> keys[j],
             Expiry |-> Group(keys[j])[1].Expiry,
             Close |-> FirstNotNull(Column(Group(keys[j]), "Close"))]]

\* Body of the try block for one stock, given the parsed table.
LoadFrame(stock_name, table) ==
    LET df == groupby_first(sort_values(table, "Date,Expiry"))
    IN  [i \in 1..Len(df) |->
            [Stock |-> stock_name, Date |-> df[i].Date,
             Expiry |-> df[i].Expiry, Close |-> df[i].Close]]

\* The for loop over files[1..n]: the frames appended, the st.error messages,
\* and whether an exception other than FileNotFoundError escaped.
RECURSIVE LoadAll(_, _)
LoadAll(d, n) ==
    IF n = 0 THEN [dfs |-> <<>>, errors |-> <<>>, raised |-> FALSE]
    ELSE LET prev == LoadAll(d, n - 1)
             stock_name == files[n][1]
             file == files[n][2]
         IN  IF prev.raised THEN prev
             ELSE IF d[file] = Missing
                  THEN [prev EXCEPT !.errors = Append(@, file)]
             ELSE IF d[file] = Corrupt
                  THEN [prev EXCEPT !.raised = TRUE]
             ELSE [prev EXCEPT !.dfs = Append(@, LoadFrame(stock_name, d[file].rows))]

RECURSIVE concat(_)
concat(dfs) == IF dfs = <<>> THEN <<>> ELSE dfs[1] \o concat(Tail(dfs))

\* pd.to_datetime(..., format='%d-%b-%Y') on one cell: the calendar day, or
\* a ValueError.  %d accepts the day with or without its leading zero.
Parses(d) == d.kind = "dmy"
to_datetime(d) == d.day

----------------------------------------------------------------------------
(* Rolling statistics and signals: app.py:48-66 *)

\* The window reaching one row too far back.
WindowStartOneEarlier(i) == IF i - window_size > 1 THEN i - window_size ELSE 1

\* Rows start..i of a stock's frame: the trailing window ending at row i.
WindowStart(i) == IF i - window_size + 1 > 1 THEN i - window_size + 1 ELSE 1

\* rolling(...) skips missing values: the closes of the window that are present.
WindowCloses(stock_data, i) ==
    SelectSeq([j \in 1..(i - WindowStart(i) + 1) |->
                   stock_data[WindowStart(i) + j - 1].Close],
              LAMBDA v : v # NaN)

RECURSIVE Sum(_)
Sum(seq) == IF seq = <<>> THEN 0 ELSE seq[1] + Sum(Tail(seq))

\* The closes of a CSV are whole numbers here (den = 1).
Values(w) == [j \in 1..Len(w) |-> w[j].num]
SumSq(seq) == Sum([j \in 1..Len(seq) |-> seq[j] * seq[j]])

\* rolling(window, min_periods=1).mean()
RollingMean(w) ==
    IF Len(w) < 1 THEN NaN ELSE [num |-> Sum(Values(w)), den |-> Len(w)]

\* The population deviation (ddof = 0), defined from one value on.
RollingStdPopulation(w) ==
    IF Len(w) < 1 THEN NaN
    ELSE [sqnum |-> Len(w) * SumSq(Values(w)) - Sum(Values(w)) * Sum(Values(w)),
          sqden |-> Len(w) * Len(w)]

\* rolling(window, min_periods=1).std(): sample deviation (ddof = 1), kept
\* as its square; undefined for fewer than two values.
RollingStd(w) ==
    IF Len(w) < 2 THEN NaN
    ELSE [sqnum |-> Len(w) * SumSq(Values(w)) - Sum(Values(w)) * Sum(Values(w)),
          sqden |-> Len(w) * (Len(w) - 1)]

\* MA_10 + sign * (1 * STD_10)
Band(ma, std, sign) ==
    IF ma = NaN \/ std = NaN THEN NaN
    ELSE [ma |-> ma, std |-> std, sign |-> sign]

\* close < MA - STD, exactly; any comparison with NaN is False.
LessThanBand(close, band) ==
    IF close = NaN \/ band = NaN THEN FALSE
    ELSE LET diff == band.ma.num - close.num * band.ma.den    \* (MA - close) * den
         IN  IF band.sign < 0
             THEN /\ diff > 0
                  /\ diff * diff * band.std.sqden
                        > band.std.sqnum * band.ma.den * band.ma.den
             ELSE \/ diff > 0
                  \/ diff * diff * band.std.sqden
                        < band.std.sqnum * band.ma.den * band.ma.den

\* close >= MA + STD: the band itself counted as outside.
GreaterOrEqualBand(close, band) ==
    IF close = NaN \/ band = NaN THEN FALSE
    ELSE LET diff == close.num * band.ma.den - band.ma.num
         IN  /\ diff > 0
             /\ diff * diff * band.std.sqden
                   >= band.std.sqnum * band.ma.den * band.ma.den

\* close > MA + STD, exactly; any comparison with NaN is False.
GreaterThanBand(close, band) ==
    IF close = NaN \/ band = NaN THEN FALSE
    ELSE LET diff == close.num * band.ma.den - band.ma.num    \* (close - MA) * den
         IN  IF band.sign > 0
             THEN /\ diff > 0
                  /\ diff * diff * band.std.sqden
                        > band.std.sqnum * band.ma.den * band.ma.den
             ELSE \/ diff > 0
                  \/ diff * diff * band.std.sqden
                        < band.std.sqnum * band.ma.den * band.ma.den

\* app.py:61-63: Hold, overwritten by Buy, overwritten by Sell.
Signal(close, lower, upper) ==
    IF GreaterThanBand(close, upper) THEN "Sell"
    ELSE IF LessThanBand(close, lower) THEN "Buy"
    ELSE "Hold"

\* (Close - MA_10) / STD_10 in floating point: NaN propagates, 0/0 is NaN,
\* x/0 is an infinity.
Deviations(close, ma, std) ==
    IF close = NaN \/ ma = NaN \/ std = NaN THEN NaN
    ELSE LET diff == close.num * ma.den - ma.num
         IN  IF std.sqnum = 0
             THEN IF diff = 0 THEN NaN ELSE IF diff > 0 THEN Inf(1) ELSE Inf(-1)
             ELSE [num |-> diff, den |-> ma.den, std |-> std]

\* combined_df[combined_df['Stock'] == stock]
StockRows(combined_df, stock) ==
    SelectSeq(combined_df, LAMBDA r : r.Stock = stock)

\* The rolling statistics taken over the combined frame, the stock's rows
\* picked afterwards: windows that reach into the previous stock.
AnalyzeStockShared(combined_df, stock) ==
    LET all == [i \in 1..Len(combined_df) |->
                   LET row == combined_df[i]
                       w == WindowCloses(combined_df, i)
                       ma == RollingMean(w)
                       std == RollingStd(w)
                       upper == Band(ma, std, 1)
                       lower == Band(ma, std, -1)
                   IN  [Stock |-> row.Stock, Date |-> row.Date,
                        Expiry |-> row.Expiry, Close |-> row.Close,
                        MA_10 |-> ma, STD_10 |-> std,
                        Upper_Band |-> upper, Lower_Band |-> lower,
                        Signal |-> Signal(row.Close, lower, upper),
                        Std_Deviations |-> Deviations(row.Close, ma, std)]]
    IN  SelectSeq(all, LAMBDA r : r.Stock = stock)

\* The body of the per-stock loop.
AnalyzeStock(combined_df, stock) ==
    LET stock_data == sort_values(StockRows(combined_df, stock), "Date")
    IN  [i \in 1..Len(stock_data) |->
            LET row == stock_data[i]
                w == WindowCloses(stock_data, i)
                ma == RollingMean(w)
                std == RollingStd(w)
                upper == Band(ma, std, 1)
                lower == Band(ma, std, -1)
            IN  [Stock |-> row.Stock, Date |-> row.Date,
                 Expiry |-> row.Expiry, Close |-> row.Close,
                 MA_10 |-> ma, STD_10 |-> std,
                 Upper_Band |-> upper, Lower_Band |-> lower,
                 Signal |-> Signal(row.Close, lower, upper),
                 Std_Deviations |-> Deviations(row.Close, ma, std)]]

\* app.py:18-71.  raised: an exception left the function.
load_and_analyze_data(d) ==
    LET loaded == LoadAll(d, Len(files))
        raw == concat(loaded.dfs)
        AllParse == \A i \in 1..Len(raw) : Parses(raw[i].Date)
        parsed == [i \in 1..Len(raw) |->
                      [raw[i] EXCEPT !.Date = to_datetime(raw[i].Date)]]
        combined_df == sort_values(parsed, "Stock,Date")
        stocks == Unique([i \in 1..Len(combined_df) |-> combined_df[i].Stock])
        result_df == concat([k \in 1..Len(stocks) |->
                                AnalyzeStock(combined_df, stocks[k])])
    IN  IF loaded.raised
        THEN [raised |-> TRUE, errors |-> loaded.errors, df |-> <<>>]
        ELSE IF loaded.dfs = <<>>
        THEN [raised |-> FALSE, errors |-> loaded.errors, df |-> <<>>]
        ELSE IF ~AllParse
        THEN [raised |-> TRUE, errors |-> loaded.errors, df |-> <<>>]
        ELSE [raised |-> FALSE, errors |-> loaded.errors, df |-> result_df]

----------------------------------------------------------------------------
(* The script: app.py:73-131 *)

\* @st.cache_data on a function without parameters: one entry, filled by the
\* first call that returns, replayed (value and st.error elements) afterwards.
\* A call that raises stores nothing.
CachedCall(c, d) ==
    IF c.full THEN [raised |-> FALSE, errors |-> c.errors, df |-> c.df]
    ELSE load_and_analyze_data(d)

CacheAfter(c, call) ==
    IF c.full \/ call.raised THEN c
    ELSE [full |-> TRUE, errors |-> call.errors, df |-> call.df]

\* The emptiness test left out.
NeverEmpty(df) == FALSE

\* DataFrame.empty
Empty(df) == Len(df) = 0

\* sorted(data['Date'].dt.date.unique()), as a set
AvailableDates(df) == { df[i].Date : i \in 1..Len(df) }

\* The dates a user picks in this model: the default (the last one) or the first.
DateChoices(df) ==
    LET days == AvailableDates(df)
    IN  { d \in days : (\A e \in days : e <= d) \/ (\A e \in days : d <= e) }

WithSignal(date_data, sig) ==
    LET hit == SelectSeq(date_data, LAMBDA r : r.Signal = sig)
    IN  [i \in 1..Len(hit) |-> hit[i].Stock]

NothingShown == [buy |-> <<>>, sell |-> <<>>, hold |-> <<>>]

Rendered(df, sel) ==
    LET date_data == SelectSeq(df, LAMBDA r : r.Date = sel)
    IN  [buy |-> WithSignal(date_data, "Buy"),
         sell |-> WithSignal(date_data, "Sell"),
         hold |-> WithSignal(date_data, "Hold")]

\* One run of the script, top to bottom.
RunScript ==
    LET call == CachedCall(cache, disk)
    IN  /\ cache' = CacheAfter(cache, call)
        /\ disk' = disk
        /\ read_disk' = disk
        /\ IF call.raised
           THEN /\ status' = "raised"
                /\ data' = <<>>
                /\ errors' = call.errors
                /\ selected_date' = 0
                /\ shown' = NothingShown
           ELSE IF Empty(call.df)
           THEN /\ status' = "stopped"
                /\ data' = call.df
                /\ errors' = Append(call.errors, "No data available")
                /\ selected_date' = 0
                /\ shown' = NothingShown
           ELSE IF AvailableDates(call.df) = {}
           THEN /\ status' = "raised"        \* selectbox index -1 of no options
                /\ data' = call.df
                /\ errors' = call.errors
                /\ selected_date' = 0
                /\ shown' = NothingShown
           ELSE \E sel \in DateChoices(call.df) :
                /\ status' = "rendered"
                /\ data' = call.df
                /\ errors' = call.errors
                /\ selected_date' = sel
                /\ shown' = Rendered(call.df, sel)

----------------------------------------------------------------------------
(* The data source: the CSV files pd.read_csv finds at app.py:31 *)

Row(date, expiry, close) == [Date |-> date, Expiry |-> expiry, Close |-> close]
Day(n) == DateText("dmy", n, TRUE)

MaxRows == 2        \* rows of a short table
MaxLen == 11        \* rows of a long, piecewise flat series
MaxFiles == 2       \* files present at once while the disk changes

ShortRows ==
    { Row(d, e, c) :
        d \in { Day(1), DateText("dmy", 1, FALSE), Day(2) },
        e \in { 1, 2 },
        c \in { NaN, Num(1), Num(3) } }

ShortTables ==
    UNION { { Table(rows) : rows \in [1..n -> ShortRows] } : n \in 0..MaxRows }

\* One row per day, closes a (rows 1..p), b (rows p+1..q), c (rows q+1..n).
PiecewiseFlat(n, a, b, c, p, q) ==
    Table([i \in 1..n |->
              Row(Day(i), 1, IF i <= p THEN a ELSE IF i <= q THEN b ELSE c)])

Prices == { Num(1), Num(2), Num(3) }

OneRow(close) == Table(<< Row(Day(1), 1, Num(close)) >>)
TwoRows == Table(<< Row(Day(1), 1, Num(3)), Row(Day(2), 1, Num(1)) >>)
BadDate == Table(<< Row(DateText("iso", 1, TRUE), 1, Num(1)) >>)

\* A disk with the given contents for two files and the rest missing.
DiskOf(a, b) ==
    [f \in FileNames |->
        IF f = "Eternal.csv" THEN a ELSE IF f = "ADANIGREEN.csv" THEN b ELSE Missing]

\* The disks a server is started on.
FixedDisk(d) ==
    \/ \E a \in ShortTables : d = DiskOf(a, Missing)
    \/ \E n \in 3..MaxLen, a \in Prices, b \in Prices \cup { NaN }, c \in Prices :
          \E p \in 0..n, q \in 0..n :
             /\ \/ p = n /\ q = n /\ b = a /\ c = a
                \/ 1 <= p /\ p < n /\ q = n /\ a # b /\ c = a
                \/ 1 <= p /\ p < q /\ q < n /\ a # b /\ b # c
             /\ d = DiskOf(PiecewiseFlat(n, a, b, c, p, q), TwoRows)
    \/ d \in [FileNames -> { Missing, Corrupt, Table(<<>>), OneRow(1) }]
    \/ \E a \in { Missing, OneRow(1) } : d = DiskOf(a, BadDate)

Present(d) == { f \in FileNames : d[f] # Missing }

WriteFile(f, contents) ==
    /\ disk[f] # contents
    /\ Cardinality(Present(disk) \cup {f}) <= MaxFiles
    /\ disk' = [disk EXCEPT ![f] = contents]
    /\ UNCHANGED <<cache, data, errors, status, selected_date, shown, read_disk>>

RemoveFile(f) ==
    /\ disk[f] # Missing
    /\ disk' = [disk EXCEPT ![f] = Missing]
    /\ UNCHANGED <<cache, data, errors, status, selected_date, shown, read_disk>>

----------------------------------------------------------------------------
(* Specifications *)

Start ==
    /\ cache = NoCache
    /\ data = <<>>
    /\ errors = <<>>
    /\ status = "idle"
    /\ selected_date = 0
    /\ shown = NothingShown
    /\ read_disk = disk

\* The server starts on an empty directory; files come, change and go while
\* the script is run again and again.
Init ==
    /\ disk = [f \in FileNames |-> Missing]
    /\ Start

Next ==
    \/ \E f \in FileNames : \E c \in { OneRow(1), OneRow(3), Corrupt } : WriteFile(f, c)
    \/ \E f \in FileNames : RemoveFile(f)
    \/ RunScript

Spec == Init /\ [][Next]_vars

\* The server starts on some disk that then stays as it is.
InitFixed ==
    /\ FixedDisk(disk)
    /\ Start

NextFixed == RunScript

SpecFixed == InitFixed /\ [][NextFixed]_vars

----------------------------------------------------------------------------
(* Properties *)

Finished == status \in { "rendered", "stopped" }

Points == 1..Len(data)
GroupOf(df, stock) == SelectSeq(df, LAMBDA r : r.Stock = stock)

StockOf(f) == (CHOOSE i \in 1..Len(files) : files[i][2] = f)
FileOf(s) == files[CHOOSE i \in 1..Len(files) : files[i][1] = s][2]
Readable(d, f) == d[f].state = "ok"

\* Exact order of a close against MA - STD and MA + STD, from the fields of
\* a point with a defined close and defined bands.
Gap(p) == p.Close.num * p.MA_10.den - p.MA_10.num       \* (close - MA) * den
GapVsStd(p) ==                                           \* sign of |close - MA| - STD
    LET l == Gap(p) * Gap(p) * p.STD_10.sqden
        r == p.STD_10.sqnum * p.MA_10.den * p.MA_10.den
    IN  IF l > r THEN 1 ELSE IF l = r THEN 0 ELSE -1
Comparable(p) == p.Close # NaN /\ p.MA_10 # NaN /\ p.STD_10 # NaN
BelowLower(p) == Comparable(p) /\ Gap(p) < 0 /\ GapVsStd(p) = 1
AboveUpper(p) == Comparable(p) /\ Gap(p) > 0 /\ GapVsStd(p) = 1
OnBand(p) == Comparable(p) /\ GapVsStd(p) = 0

\* C1: every point carries exactly one of Buy, Sell, Hold; Buy exactly when
\* close < lower band, Sell exactly when close > upper band, Hold otherwise,
\* and so Hold when the close lies exactly on a band.
C1_SignalRule ==
    \A i \in Points :
        LET p == data[i]
        IN  /\ p.Signal \in { "Buy", "Sell", "Hold" }
            /\ p.Signal = "Buy" <=> BelowLower(p)
            /\ p.Signal = "Sell" <=> AboveUpper(p)
            /\ OnBand(p) => p.Signal = "Hold"

\* A rendered result with a close exactly one (non-zero) standard deviation
\* from its mean, next to a Sell.
C1_Witness ==
    /\ status = "rendered"
    /\ \E i \in Points : OnBand(data[i]) /\ data[i].STD_10.sqnum > 0
    /\ \E i \in Points : data[i].Signal = "Sell"

\* C2: if at least one source is readable, the run is not aborted, the result
\* holds the points of every readable instrument and every failed source
\* (missing or corrupt) is reported.
C2_FailuresIsolated ==
    (status # "idle" /\ \E f \in FileNames : Readable(disk, f)) =>
        /\ status # "raised"
        /\ \A f \in FileNames :
              IF Readable(disk, f)
              THEN { to_datetime(disk[f].rows[i].Date) : i \in 1..Len(disk[f].rows) }
                     = { data[i].Date : i \in { j \in Points :
                                                   FileOf(data[j].Stock) = f } }
              ELSE \E k \in 1..Len(errors) : errors[k] = f

\* Contents tried for the file that is replaced.
AltContents ==
    { Missing, Table(<<>>), OneRow(3),
      Table(<< Row(Day(2), 2, Num(1)), Row(Day(2), 1, Num(3)), Row(Day(1), 1, NaN) >>) }

\* C3: replacing the rows of one instrument's file leaves every point of
\* every other instrument as it is, whenever both runs return a result.
C3_Isolation ==
    Finished =>
        \A f \in { "Eternal.csv", "ADANIGREEN.csv" } :
            \A alt \in AltContents :
                LET other == load_and_analyze_data([disk EXCEPT ![f] = alt])
                IN  ~other.raised =>
                        \A s \in StockNames \ { files[StockOf(f)][1] } :
                            GroupOf(other.df, s) = GroupOf(data, s)

\* Two instruments with points, one of them with a defined deviation.
C3_Witness ==
    /\ status = "rendered"
    /\ Cardinality({ data[i].Stock : i \in Points }) >= 2
    /\ \E i \in Points : data[i].STD_10 # NaN /\ data[i].STD_10.sqnum > 0

\* C4: the result holds one point per (instrument, calendar date).
C4_OnePerDate ==
    Finished =>
        \A i \in Points : \A j \in Points :
            (data[i].Stock = data[j].Stock /\ data[i].Date = data[j].Date) => i = j

\* C5: every point is one raw row of its instrument's file, the one with the
\* least Expiry among the rows of its date: its Expiry and its Close are
\* that row's.
C5_KeptRowIsARawRow ==
    Finished =>
        \A i \in Points :
            LET rows == disk[FileOf(data[i].Stock)].rows
            IN  \E k \in 1..Len(rows) :
                    /\ to_datetime(rows[k].Date) = data[i].Date
                    /\ rows[k].Expiry = data[i].Expiry
                    /\ rows[k].Close = data[i].Close
                    /\ \A m \in 1..Len(rows) :
                          rows[m].Date = rows[k].Date => rows[k].Expiry <= rows[m].Expiry

\* ma is the mean of the cells of closes that are present.
MeanIs(ma, closes) ==
    LET present == { j \in DOMAIN closes : closes[j] # NaN }
        RECURSIVE Total(_)
        Total(S) == IF S = {} THEN 0
                    ELSE LET j == CHOOSE x \in S : TRUE
                         IN  closes[j].num + Total(S \ {j})
    IN  IF present = {} THEN ma = NaN
        ELSE ma # NaN /\ ma.num * Cardinality(present) = Total(present) * ma.den

\* C6: within an instrument's group, moving_average[i] is the mean of the
\* closes of rows max(1, i - W + 1)..i of that group (the closes that are
\* present; undefined when none is).
C6_WindowMean ==
    \A s \in StockNames :
        LET o == GroupOf(data, s)
        IN  \A i \in 1..Len(o) :
                LET size == IF i < window_size THEN i ELSE window_size
                IN  MeanIs(o[i].MA_10, [j \in 1..size |-> o[i - size + j].Close])

\* A group longer than the window whose last windows differ from the first.
C6_Witness ==
    /\ status = "rendered"
    /\ \E s \in StockNames :
          LET o == GroupOf(data, s)
          IN  /\ Len(o) > window_size
              /\ o[1].Close # o[Len(o)].Close
              /\ o[1].Close # o[2].Close

\* C7: the first point of an instrument has moving_average = close and no
\* std_dev; a point whose std_dev is undefined or zero is Hold and has no
\* deviation score.
C7_WarmUp ==
    \A s \in StockNames :
        LET o == GroupOf(data, s)
        IN  /\ Len(o) > 0 =>
                 /\ o[1].STD_10 = NaN
                 /\ IF o[1].Close = NaN THEN o[1].MA_10 = NaN
                    ELSE o[1].MA_10 # NaN
                         /\ o[1].MA_10.num = o[1].Close.num * o[1].MA_10.den
            /\ \A i \in 1..Len(o) :
                 (o[i].STD_10 = NaN \/ o[i].STD_10.sqnum = 0) =>
                     /\ o[i].Signal = "Hold"
                     /\ o[i].Std_Deviations = NaN

\* A flat full window after the price moved: std_dev is zero, not undefined.
C7_Witness ==
    /\ status = "rendered"
    /\ \E s \in StockNames :
          LET o == GroupOf(data, s)
          IN  /\ Len(o) > window_size
              /\ o[1].Close # o[2].Close
              /\ o[Len(o)].STD_10 # NaN
              /\ o[Len(o)].STD_10.sqnum = 0

\* C8: the result is ordered by instrument name, and within an instrument
\* by strictly increasing date.
C8_Ordered ==
    Finished =>
        \A i \in 1..(Len(data) - 1) :
            \/ LexLess(StockChars(data[i].Stock), StockChars(data[i + 1].Stock))
            \/ /\ data[i].Stock = data[i + 1].Stock
               /\ data[i].Date < data[i + 1].Date

\* No file of d holds a row.
NoRows(d) == \A f \in FileNames : d[f] = Missing \/ (Readable(d, f) /\ d[f].rows = <<>>)

C10_FreshResult ==
    Finished => data = load_and_analyze_data(read_disk).df

====
